---- MODULE Spec2Model ----
(***************************************************************************)
(* Model of src/code/quantile.py, makeQuantile: target construction, the   *)
(* walk-forward backtest loop, the live forecast, the plot and the return. *)
(*                                                                         *)
(* Positions in sequences are 1-based here; pandas position p is position  *)
(* p+1 of the sequence.  Timestamps (Datetime) are 0-based row numbers of  *)
(* the CSV, so Datetime = t is "row t" of the input series.                *)
(* A fitted QuantileRegressor is opaque: it is the record of what it was   *)
(* fitted on (quantile, X, y and the name of the y column); a prediction   *)
(* is the record of the model and the feature row it was applied to.       *)
(*                                                                         *)
(* Also modelled: the warm-up cleaning of a CSV (clean_csv of makeCSV.py   *)
(* and clean_csv_file of cleanCSVs.py), which rewrites the CSV in place,   *)
(* and GeminiStockReportGenerator.generate_report of gemini_report.py,     *)
(* which main.py runs after the forecast; print_report around it;          *)
(* run_pipeline of main.py with the files it reads and writes;             *)
(* clean_all_csvs of cleanCSVs.py; parse_markdown of pdf_generator.py.     *)
(***************************************************************************)
EXTENDS Integers, Sequences, FiniteSets, TLC

\* ---------------------------------------------------------------- bounds
MaxRows == 4
MaxClose == 2
MaxH == 3
MaxW == 4
MaxBase == 3
MaxCleanRows == 102
MaxWarmup == 2
MaxCleanCalls == 3
MaxFiles == 2
MaxElements == 4

\* ------------------------------------------------------------- constants
\* makeQuantile(ticker, forecast_horizon=6, ...)
DefaultHorizon == 6
\* a missing cell of the data frame (Close is always >= 1)
NaN == 0
\* clean_csv(self, warmup_period=50)
DefaultWarmup == 50
\* clean_csv_file: len(df) <= 50, df.iloc[50:]
FileWarmup == 50

VARIABLES
    pc,                 \* position in makeQuantile
    csv,                \* the rows of CSVs/<TICKER>.csv
    FORECAST_HORIZON,
    WINDOW,
    df,                 \* the data frame
    i,                  \* loop counter of the backtest
    models,             \* model_q05 .. model_q95
    preds,              \* q05_preds .. q95_preds
    y_true_high,
    y_true_low,
    final_models,       \* final_model_q05 .. final_model_q95
    final,              \* final_q05 .. final_q95
    datetime_recent,
    close_recent,
    forecast_datetime,
    chart,              \* graphs/<TICKER>_quantile_forecast.png written
    ret,                \* the returned dict, or None
    err,                \* the exception that ended the run, or None
    columns,            \* the columns of the CSV, the first (datetime) one aside
    bands,              \* the fill_between calls over datetime_recent
    forecast_bands,     \* the fill_between calls over forecast_datetime
    clean,              \* the calls of clean_csv / clean_csv_file so far, and the latest
    env,                \* what generate_report finds: files, the model's answer
    rep,                \* generate_report: its position, locals and result
    printed,            \* print_report: the banner and the value returned
    pipe,               \* run_pipeline: its position, the CSV file, what each stage read
    batch,              \* clean_all_csvs: the files, the loop position, the counters
    md                  \* parse_markdown: the elements, the loop position, the locals

vars == <<pc, csv, FORECAST_HORIZON, WINDOW, df, i, models, preds, y_true_high,
          y_true_low, final_models, final, datetime_recent, close_recent,
          forecast_datetime, chart, ret, err, columns, bands, forecast_bands,
          clean, env, rep, printed, pipe, batch, md>>

\* the state of makeQuantile
quantile == <<pc, FORECAST_HORIZON, WINDOW, df, i, models, preds, y_true_high,
              y_true_low, final_models, final, datetime_recent, close_recent,
              forecast_datetime, chart, ret, err, columns, bands, forecast_bands>>

\* the state of print_report, run_pipeline, clean_all_csvs and parse_markdown
rest == <<printed, pipe, batch, md>>

\* the state outside makeQuantile
outside == <<clean, env, rep, rest>>

\* Python's None, where a model, a prediction or the returned dict is expected
None == [none |-> TRUE]
\* no exception was raised
NoError == "None"

\* The seven quantiles, in percent.
Levels == {5, 15, 25, 50, 75, 85, 95}

\* ------------------------------------------------------------ helpers
MaxOf(S) == CHOOSE x \in S : \A y \in S : y <= x
MinOf(S) == CHOOSE x \in S : \A y \in S : x <= y

\* df.iloc[:-k], k >= 1
IlocHead(s, k) == IF k >= Len(s) THEN <<>> ELSE SubSeq(s, 1, Len(s) - k)

\* df.iloc[-k:]  (-0 is 0: the whole frame)
IlocTail(s, k) == IF k = 0 \/ k >= Len(s) THEN s ELSE SubSeq(s, Len(s) - k + 1, Len(s))

\* df.iloc[[-k]], 1 <= k <= len(df)
IlocRowNeg(s, k) == s[Len(s) - k + 1]

FEATURES == {"High", "Close", "Volume", "Low", "RSI_14", "MACD_12_26_9", "SMA_50"}

\* dropna(subset=...) raises KeyError for the labels of subset not in the frame
MissingFromBug(cols) == {"Close"} \ cols
MissingFrom(cols) == (FEATURES \cup {"Close"}) \ cols

\* df.dropna(subset=FEATURES + ["Close"])
DropNaSubsetBug(s) == s
DropNaSubset(s) == SelectSeq(s, LAMBDA r : r.nan # "feature")

\* Series.rolling(window=H, min_periods=1): the positions aggregated at p
RollingWindowBug(p, h) == (IF p - h > 1 THEN p - h ELSE 1) .. p
RollingWindow(p, h) == (IF p - h + 1 > 1 THEN p - h + 1 ELSE 1) .. p

RollingMax(s, h) == [p \in 1..Len(s) |-> MaxOf({s[q].Close : q \in RollingWindow(p, h)})]
RollingMin(s, h) == [p \in 1..Len(s) |-> MinOf({s[q].Close : q \in RollingWindow(p, h)})]

\* Series.shift(-H+1): position t takes the value of position t + (H-1)
ShiftBackBug(col, h) == [t \in 1..Len(col) |-> IF t + h <= Len(col) THEN col[t + h] ELSE NaN]
ShiftBack(col, h) == [t \in 1..Len(col) |-> IF t + h - 1 <= Len(col) THEN col[t + h - 1] ELSE NaN]

\* The timestamps of the rows whose Close a target cell was computed from.
TargetWindow(s, h) ==
    [t \in 1..Len(s) |-> IF t + h - 1 <= Len(s)
                         THEN {s[q].Datetime : q \in RollingWindow(t + h - 1, h)}
                         ELSE {}]

\* df["future_high_close"] = ..., df["future_low_close"] = ...
WithTargets(s, h) ==
    LET hi == ShiftBack(RollingMax(s, h), h)
        lo == ShiftBack(RollingMin(s, h), h)
        win == TargetWindow(s, h)
    IN [t \in 1..Len(s) |->
          [Datetime |-> s[t].Datetime, Close |-> s[t].Close, nan |-> s[t].nan,
           future_high_close |-> hi[t], future_low_close |-> lo[t],
           target_window |-> win[t]]]

\* df.dropna(inplace=True): a row with a missing cell in ANY column goes
DropNaAny(s) ==
    SelectSeq(s, LAMBDA r : /\ r.nan = "none"
                            /\ r.future_high_close # NaN
                            /\ r.future_low_close # NaN)

\* row[FEATURES]: Close is a feature; the other six are the row's own
Features(r) == [row |-> r.Datetime, Close |-> r.Close]

\* (a + b) / 2, exactly
MidBug(hi, lo) == [num |-> 2 * hi + lo, den |-> 2]
Mid(hi, lo) == [num |-> hi + lo, den |-> 2]

\* future_mid = (train_df["future_high_close"] + train_df["future_low_close"]) / 2
FutureMidBug(train) ==
    [k \in 1..Len(train) |-> Mid(train[k].future_high_close, train[Len(train)].future_low_close)]

FutureMid(train) ==
    [k \in 1..Len(train) |-> Mid(train[k].future_high_close, train[k].future_low_close)]

\* The y column each QuantileRegressor(quantile=q) is fitted against.
TargetNameBug(q) ==
    CASE q = 5 -> "future_low_close"
      [] q = 15 -> "future_low_close"
      [] q = 25 -> "future_high_close"
      [] q = 50 -> "future_mid"
      [] q = 75 -> "future_high_close"
      [] q = 85 -> "future_high_close"
      [] q = 95 -> "future_high_close"
TargetName(q) ==
    CASE q = 5 -> "future_low_close"
      [] q = 15 -> "future_low_close"
      [] q = 25 -> "future_low_close"
      [] q = 50 -> "future_mid"
      [] q = 75 -> "future_high_close"
      [] q = 85 -> "future_high_close"
      [] q = 95 -> "future_high_close"

TargetSeries(name, train) ==
    CASE name = "future_low_close" -> [k \in 1..Len(train) |-> train[k].future_low_close]
      [] name = "future_high_close" -> [k \in 1..Len(train) |-> train[k].future_high_close]
      [] name = "future_mid" -> FutureMid(train)

\* QuantileRegressor(quantile=q, alpha=ALPHA).fit(train[FEATURES], train[target])
Fit(q, train) ==
    [quantile |-> q,
     target |-> TargetName(q),
     X |-> [k \in 1..Len(train) |-> Features(train[k])],
     y |-> TargetSeries(TargetName(q), train)]

\* model.predict(row[FEATURES])[0]
Predict(model, row) == [model |-> model, x |-> Features(row)]

\* ------------------------------------------------------------- inputs
NanKinds == {"feature", "other"}

\* A series of n rows, at most one of them with a missing cell.
Series(n, closes, nanAt, kind) ==
    [t \in 1..n |-> [Datetime |-> t - 1, Close |-> closes[t],
                     nan |-> IF t = nanAt THEN kind ELSE "none"]]

InputSeries ==
    UNION {{Series(n, closes, nanAt, kind) :
               closes \in [1..n -> 1..MaxClose], nanAt \in 0..n, kind \in NanKinds}
           : n \in 0..MaxRows}

\* The 30-row series of the concrete scenario: Close rises by 1 per row.
ScenarioSeries(base) ==
    [t \in 1..30 |-> [Datetime |-> t - 1, Close |-> base + t - 1, nan |-> "none"]]

\* no call of clean_csv or clean_csv_file was made yet
NoCalls == [calls |-> 0, fn |-> "None", k |-> 0, ret |-> "None", raised |-> FALSE]

\* graph_paths, when generate_report is called without them
ChartNames == {"trend", "macd", "rsi", "quantile"}

\* generate_report was not called yet
NotStarted ==
    [pc |-> "idle", data_summary |-> [none |-> TRUE], encoded_images |-> {},
     prompt |-> <<>>, content |-> <<>>, called |-> FALSE, written |-> FALSE,
     result |-> [text |-> "None", filename |-> "None"]]

\* every file is there and every call succeeds
Sound ==
    [csv |-> "ok", charts |-> ChartNames, encode |-> "ok", model |-> "ok",
     write |-> "ok"]

\* print_report was not called yet
NotPrinted == [pc |-> "idle", banner |-> FALSE, ret |-> "None"]

\* run_pipeline was not started
NotRunning ==
    [pc |-> "idle", ticker |-> "None", fs |-> "None", file |-> None, before |-> None,
     graph_df |-> None, fetched_2y |-> "not_called", clean_called |-> FALSE,
     forecast_input |-> None, fetched_user |-> "not_called", charts_from |-> None,
     names |-> [handler_csv |-> "None", graph_csv |-> "None", forecaster_csv |-> "None",
                forecast_chart |-> "None", report_csv |-> "None",
                report_chart |-> "None", pdf_chart |-> "None"],
     markdown_file |-> "None"]

\* clean_all_csvs was not called
NoBatch ==
    [pc |-> "idle", files |-> <<>>, pos |-> 0, successful |-> 0, failed |-> 0,
     skipped |-> 0]

\* parse_markdown was not called
NoParse ==
    [pc |-> "idle", elements |-> <<>>, pos |-> 0, current_section |-> None,
     current_subsection |-> None, sections |-> <<>>]

Start ==
    /\ pc = "load"
    /\ clean = NoCalls
    /\ rep = NotStarted
    /\ printed = NotPrinted
    /\ df = <<>>
    /\ i = 0
    /\ models = [q \in Levels |-> None]
    /\ preds = [q \in Levels |-> <<>>]
    /\ y_true_high = <<>>
    /\ y_true_low = <<>>
    /\ final_models = [q \in Levels |-> None]
    /\ final = [q \in Levels |-> None]
    /\ datetime_recent = <<>>
    /\ close_recent = <<>>
    /\ forecast_datetime = <<>>
    /\ chart = FALSE
    /\ ret = None
    /\ err = NoError
    /\ bands = <<>>
    /\ forecast_bands = <<>>

Init ==
    /\ csv \in InputSeries
    /\ columns = FEATURES
    /\ FORECAST_HORIZON \in 1..MaxH
    /\ WINDOW \in 0..MaxW
    /\ Start
    /\ env = Sound
    /\ pipe = NotRunning
    /\ batch = NoBatch
    /\ md = NoParse

\* A CSV that lacks one of the required columns, or none.
ColumnsInit ==
    /\ csv \in {s \in InputSeries : Len(s) <= 2}
    /\ columns \in {FEATURES} \cup {FEATURES \ {c} : c \in FEATURES}
    /\ FORECAST_HORIZON \in 1..MaxH
    /\ WINDOW \in 0..MaxW
    /\ Start
    /\ env = Sound
    /\ pipe = NotRunning
    /\ batch = NoBatch
    /\ md = NoParse

ScenarioInit ==
    /\ csv \in {ScenarioSeries(base) : base \in 1..MaxBase}
    /\ columns = FEATURES
    /\ FORECAST_HORIZON = DefaultHorizon
    /\ WINDOW \in 0..MaxW
    /\ Start
    /\ env = Sound
    /\ pipe = NotRunning
    /\ batch = NoBatch
    /\ md = NoParse

\* ------------------------------------------------------------ actions
Raise(e) ==
    /\ pc' = "error"
    /\ err' = e

\* df = pd.read_csv(CSV_PATH)
LoadData ==
    /\ pc = "load"
    /\ df' = csv
    /\ pc' = "dropna_features"
    /\ UNCHANGED <<csv, FORECAST_HORIZON, WINDOW, i, models, preds, y_true_high,
                   y_true_low, final_models, final, datetime_recent, close_recent,
                   forecast_datetime, chart, ret, err, columns, bands, forecast_bands>>
    /\ UNCHANGED outside

\* df = df.dropna(subset=FEATURES + ["Close"]).copy()
DropNaFeatures ==
    /\ pc = "dropna_features"
    /\ IF MissingFrom(columns) # {}
       THEN /\ Raise("KeyError")
            /\ UNCHANGED df
       ELSE /\ df' = DropNaSubset(df)
            /\ pc' = "targets"
            /\ UNCHANGED err
    /\ UNCHANGED <<csv, FORECAST_HORIZON, WINDOW, i, models, preds, y_true_high,
                   y_true_low, final_models, final, datetime_recent, close_recent,
                   forecast_datetime, chart, ret, columns, bands, forecast_bands>>
    /\ UNCHANGED outside

\* the two rolling(...).max()/min().shift(-FORECAST_HORIZON+1) columns
MakeTargets ==
    /\ pc = "targets"
    /\ df' = WithTargets(df, FORECAST_HORIZON)
    /\ pc' = "dropna_all"
    /\ UNCHANGED <<csv, FORECAST_HORIZON, WINDOW, i, models, preds, y_true_high,
                   y_true_low, final_models, final, datetime_recent, close_recent,
                   forecast_datetime, chart, ret, err, columns, bands, forecast_bands>>
    /\ UNCHANGED outside

\* the same, with the cleaned frame written back to CSV_PATH
DropNaAllBug ==
    /\ pc = "dropna_all"
    /\ df' = DropNaAny(df)
    /\ csv' = [k \in 1..Len(df') |->
                 [Datetime |-> df'[k].Datetime, Close |-> df'[k].Close, nan |-> df'[k].nan]]
    /\ pc' = "backtest"
    /\ UNCHANGED <<FORECAST_HORIZON, WINDOW, i, models, preds, y_true_high,
                   y_true_low, final_models, final, datetime_recent, close_recent,
                   forecast_datetime, chart, ret, err, columns, bands, forecast_bands>>
    /\ UNCHANGED outside

\* df.dropna(inplace=True); df = df.reset_index(drop=True)
DropNaAll ==
    /\ pc = "dropna_all"
    /\ df' = DropNaAny(df)
    /\ pc' = "backtest"
    /\ UNCHANGED <<csv, FORECAST_HORIZON, WINDOW, i, models, preds, y_true_high,
                   y_true_low, final_models, final, datetime_recent, close_recent,
                   forecast_datetime, chart, ret, err, columns, bands, forecast_bands>>
    /\ UNCHANGED outside

\* train_df = df.iloc[:-(WINDOW - i)]
TrainSliceBug(s, w, k) == IlocHead(s, w - k - 1)
TrainSlice(s, w, k) == IlocHead(s, w - k)

\* range(WINDOW)
LoopBoundBug(w) == w - 1
LoopBound(w) == w

\* One iteration of "for i in range(WINDOW)", or the end of the loop.
BacktestStep ==
    /\ pc = "backtest"
    /\ IF i >= LoopBound(WINDOW)
       THEN /\ pc' = "live"
            /\ UNCHANGED <<i, models, preds, y_true_high, y_true_low, err>>
       ELSE IF WINDOW - i > Len(df)
       THEN \* test_row = df.iloc[[-(WINDOW - i)]]: out of bounds
            /\ Raise("IndexError")
            /\ UNCHANGED <<i, models, preds, y_true_high, y_true_low>>
       ELSE IF TrainSlice(df, WINDOW, i) = <<>>
       THEN \* fit on a frame of 0 rows
            /\ Raise("ValueError")
            /\ UNCHANGED <<i, models, preds, y_true_high, y_true_low>>
       ELSE LET train_df == TrainSlice(df, WINDOW, i)
                test_row == IlocRowNeg(df, WINDOW - i)
                fitted == [q \in Levels |-> Fit(q, train_df)]
            IN /\ models' = fitted
               /\ preds' = [q \in Levels |-> Append(preds[q], Predict(fitted[q], test_row))]
               /\ y_true_high' = Append(y_true_high, test_row.future_high_close)
               /\ y_true_low' = Append(y_true_low, test_row.future_low_close)
               /\ i' = i + 1
               /\ UNCHANGED <<pc, err>>
    /\ UNCHANGED <<csv, FORECAST_HORIZON, WINDOW, df, final_models, final,
                   datetime_recent, close_recent, forecast_datetime, chart, ret,
                   columns, bands, forecast_bands>>
    /\ UNCHANGED outside

\* train_df_final = df.iloc[:-1]
FinalTrainSliceBug(s) == IlocHead(s, 0)
FinalTrainSlice(s) == IlocHead(s, 1)

\* The final fits and the seven final predictions.
LiveForecast ==
    /\ pc = "live"
    /\ IF Len(df) = 0
       THEN \* latest_features = df[FEATURES].iloc[[-1]]: out of bounds
            /\ Raise("IndexError")
            /\ UNCHANGED <<final_models, final>>
       ELSE IF FinalTrainSlice(df) = <<>>
       THEN /\ Raise("ValueError")
            /\ UNCHANGED <<final_models, final>>
       ELSE LET train_df_final == FinalTrainSlice(df)
                latest == IlocRowNeg(df, 1)
                fitted == [q \in Levels |-> Fit(q, train_df_final)]
            IN /\ final_models' = fitted
               /\ final' = [q \in Levels |-> Predict(fitted[q], latest)]
               /\ pc' = "plot"
               /\ UNCHANGED err
    /\ UNCHANGED <<csv, FORECAST_HORIZON, WINDOW, df, i, models, preds, y_true_high,
                   y_true_low, datetime_recent, close_recent, forecast_datetime,
                   chart, ret, columns, bands, forecast_bands>>
    /\ UNCHANGED outside

\* df.iloc[-WINDOW:] of close_recent and datetime_recent
RecentTailBug(s, w) == IF w = 0 \/ w >= Len(s) THEN s ELSE SubSeq(s, 1, w)
RecentTail(s, w) == IlocTail(s, w)

\* The (lower, upper) levels of the three fill_between calls.
BandPairsBug == <<<<5, 95>>, <<15, 75>>, <<25, 85>>>>
BandPairs == <<<<5, 95>>, <<15, 85>>, <<25, 75>>>>

\* fill_between(x, y1, y2) with scalar y1, y2: the scalar at every x
Broadcast(v, x) == [k \in 1..Len(x) |-> v]

\* last_datetime + dt.timedelta(days=d)
PlusDays(t, d) == [base |-> t, days |-> d]

\* forecast_datetime = [last_datetime + 1 day, last_datetime + 2 days]
ForecastDatetime(last_datetime) == <<PlusDays(last_datetime, 1), PlusDays(last_datetime, 2)>>

\* close_recent, datetime_recent, the fill_between calls and savefig
Plot ==
    /\ pc = "plot"
    /\ LET recent == RecentTail(df, WINDOW)
           x == [k \in 1..Len(recent) |-> recent[k].Datetime]
       IN /\ datetime_recent' = x
          /\ close_recent' = [k \in 1..Len(recent) |-> recent[k].Close]
          /\ IF \E q \in Levels : Len(preds[q]) # Len(recent)
             THEN \* fill_between(x, y1, y2) with len(x) # len(y1)
                  /\ Raise("ValueError")
                  /\ UNCHANGED <<forecast_datetime, chart, bands, forecast_bands>>
             ELSE LET fx == ForecastDatetime(x[Len(x)])
                  IN /\ bands' = [b \in 1..Len(BandPairs) |->
                                    [x |-> x,
                                     y1 |-> preds[BandPairs[b][1]],
                                     y2 |-> preds[BandPairs[b][2]]]]
                     /\ forecast_datetime' = fx
                     /\ forecast_bands' = [b \in 1..Len(BandPairs) |->
                                    [x |-> fx,
                                     y1 |-> Broadcast(final[BandPairs[b][1]], fx),
                                     y2 |-> Broadcast(final[BandPairs[b][2]], fx)]]
                     /\ chart' = TRUE
                     /\ pc' = "return"
                     /\ UNCHANGED err
    /\ UNCHANGED <<csv, FORECAST_HORIZON, WINDOW, df, i, models, preds, y_true_high,
                   y_true_low, final_models, final, ret, columns>>
    /\ UNCHANGED outside

\* return {'q05': final_q05, ..., 'forecast_datetime': forecast_datetime}
Return ==
    /\ pc = "return"
    /\ ret' = [q |-> final, forecast_datetime |-> forecast_datetime]
    /\ pc' = "done"
    /\ UNCHANGED <<csv, FORECAST_HORIZON, WINDOW, df, i, models, preds, y_true_high,
                   y_true_low, final_models, final, datetime_recent, close_recent,
                   forecast_datetime, chart, err, columns, bands, forecast_bands>>
    /\ UNCHANGED outside

Next ==
    \/ LoadData
    \/ DropNaFeatures
    \/ MakeTargets
    \/ DropNaAll
    \/ BacktestStep
    \/ LiveForecast
    \/ Plot
    \/ Return

Spec == Init /\ [][Next]_vars

ScenarioSpec == ScenarioInit /\ [][Next]_vars

ColumnsSpec == ColumnsInit /\ [][Next]_vars

\* ------------------------------------------------------- warm-up cleaning
\* if len(df) <= warmup_period: ... return False
TooFewBug(n, k) == n < k

TooFew(n, k) == n <= k

\* df.iloc[k:].reset_index(drop=True), written back with index=False
DropWarmup(s, k) == [j \in 1..(Len(s) - k) |-> s[j + k]]

\* One call of the cleaning on the CSV, warm-up period k.  The whole body is
\* in try/except Exception: a failing read_csv leaves the file as it is, a
\* failing to_csv leaves it as it is or truncated; both return False.
Clean(fn, k) ==
    /\ clean.calls < MaxCleanCalls
    /\ \E io \in {"ok", "read_fails", "write_fails"} :
          IF io = "read_fails"
          THEN /\ csv' = csv
               /\ clean' = [calls |-> clean.calls + 1, fn |-> fn, k |-> k,
                            ret |-> "False", raised |-> TRUE]
          ELSE IF TooFew(Len(csv), k)
          THEN /\ csv' = csv
               /\ clean' = [calls |-> clean.calls + 1, fn |-> fn, k |-> k,
                            ret |-> "False", raised |-> FALSE]
          ELSE IF io = "write_fails"
          THEN /\ csv' \in {csv, <<>>}
               /\ clean' = [calls |-> clean.calls + 1, fn |-> fn, k |-> k,
                            ret |-> "False", raised |-> TRUE]
          ELSE /\ csv' = DropWarmup(csv, k)
               /\ clean' = [calls |-> clean.calls + 1, fn |-> fn, k |-> k,
                            ret |-> "True", raised |-> FALSE]
    /\ UNCHANGED <<quantile, env, rep, rest>>

\* StockDataHandler.clean_csv(warmup_period)
clean_csv == \E k \in (0..MaxWarmup) \cup {DefaultWarmup} : Clean("clean_csv", k)

\* clean_csv_file(file_path)
clean_csv_file == Clean("clean_csv_file", FileWarmup)

\* a CSV of n rows
CleanSeries(n) == [t \in 1..n |-> [Datetime |-> t - 1, Close |-> 1, nan |-> "none"]]

CleanInit ==
    /\ csv \in {CleanSeries(n) : n \in 0..MaxCleanRows}
    /\ columns = FEATURES
    /\ FORECAST_HORIZON = DefaultHorizon
    /\ WINDOW = 0
    /\ Start
    /\ env = Sound
    /\ pipe = NotRunning
    /\ batch = NoBatch
    /\ md = NoParse

CleanNext ==
    \/ clean_csv
    \/ clean_csv_file

CleanSpec == CleanInit /\ [][CleanNext]_vars

\* ------------------------------------------------------- clean_all_csvs
\* What clean_csv_file returns on a file of f.rows rows: False from the
\* except branch or for too few rows, True after the rewrite.
CleanFileResult(f) ==
    IF f.io = "read_fails" THEN FALSE
    ELSE IF TooFew(f.rows, FileWarmup) THEN FALSE
    ELSE IF f.io = "write_fails" THEN FALSE
    ELSE TRUE

\* str(result) of a bool, as its characters
Str(b) == IF b THEN <<"T", "r", "u", "e">> ELSE <<"F", "a", "l", "s", "e">>

\* word in text
In(word, text) ==
    \E a \in 1..(Len(text) + 1) :
        /\ a + Len(word) - 1 <= Len(text)
        /\ SubSeq(text, a, a + Len(word) - 1) = word

\* The files glob finds: each with few or enough rows, and file operations
\* that succeed or raise.
BatchFiles ==
    [rows : {0, FileWarmup, FileWarmup + 1}, io : {"ok", "read_fails", "write_fails"}]

\* if not csv_files: ... return; successful = failed = skipped = 0
CleanAllStart ==
    /\ batch.pc = "start"
    /\ batch' = IF batch.files = <<>>
                THEN [batch EXCEPT !.pc = "returned"]
                ELSE [batch EXCEPT !.pc = "loop", !.successful = 0, !.failed = 0,
                                   !.skipped = 0]
    /\ UNCHANGED <<csv, quantile, clean, env, rep, printed, pipe, md>>

\* One iteration of "for file_path in sorted(csv_files)"
CleanAllStep ==
    /\ batch.pc = "loop"
    /\ batch.pos < Len(batch.files)
    /\ LET result == CleanFileResult(batch.files[batch.pos + 1])
           Skipping == <<"S", "k", "i", "p", "p", "i", "n", "g">>
       IN  batch' =
             IF result = TRUE
             THEN [batch EXCEPT !.pos = @ + 1, !.successful = @ + 1]
             ELSE IF In(Skipping, Str(result))
             THEN [batch EXCEPT !.pos = @ + 1, !.skipped = @ + 1]
             ELSE [batch EXCEPT !.pos = @ + 1, !.failed = @ + 1]
    /\ UNCHANGED <<csv, quantile, clean, env, rep, printed, pipe, md>>

\* the loop is over: the summary is printed
CleanAllReturn ==
    /\ batch.pc = "loop"
    /\ batch.pos = Len(batch.files)
    /\ batch' = [batch EXCEPT !.pc = "returned"]
    /\ UNCHANGED <<csv, quantile, clean, env, rep, printed, pipe, md>>

BatchInit ==
    /\ csv = <<>>
    /\ columns = FEATURES
    /\ FORECAST_HORIZON = DefaultHorizon
    /\ WINDOW = 0
    /\ Start
    /\ env = Sound
    /\ pipe = NotRunning
    /\ md = NoParse
    /\ \E n \in 0..MaxFiles : \E files \in [1..n -> BatchFiles] :
          batch = [NoBatch EXCEPT !.pc = "start", !.files = files]

BatchNext ==
    \/ CleanAllStart
    \/ CleanAllStep
    \/ CleanAllReturn

BatchSpec == BatchInit /\ [][BatchNext]_vars

\* --------------------------------------------------------- run_pipeline
\* What the user may type at "Enter a ticker for stock data: ".
Tickers == {"AAPL", "aapl", "Aapl", "MSFT", "msft"}

\* ticker.upper()
Upper(t) ==
    CASE t \in {"AAPL", "aapl", "Aapl"} -> "AAPL"
      [] t \in {"MSFT", "msft"} -> "MSFT"

\* Two names in the same directory are the same file: equal, or equal up to
\* letter case on a file system that ignores case.
SameFile(fs, a, b) == a = b \/ (fs = "case_insensitive" /\ Upper(a) = Upper(b))

\* A CSV as a fetch writes it, or as an earlier run left it: enough rows for
\* the warm-up cleaning, or not.
CsvContents(origin) == [origin : {origin}, rows : {DefaultWarmup, DefaultWarmup + 1}]

\* StockDataHandler(ticker), GraphGenerator(ticker), QuantileForecaster(ticker):
\* the graph generator reads the CSV in its constructor
Construct ==
    /\ pipe.pc = "construct"
    /\ LET named == [pipe EXCEPT !.names.handler_csv = Upper(pipe.ticker),
                                 !.names.graph_csv = Upper(pipe.ticker)]
       IN  pipe' = IF pipe.file = None
                   THEN [named EXCEPT !.pc = "error"]
                   ELSE [named EXCEPT !.pc = "fetch_2y", !.graph_df = pipe.file]
    /\ UNCHANGED <<csv, quantile, clean, env, rep, printed, batch, md>>

\* fetch_and_prepare_data: no data, return None and nothing written; or the
\* CSV is written and its path returned
Fetch(p, origin, out) ==
    IF out = None
    THEN [p EXCEPT !["fetched_" \o origin] = "None"]
    ELSE [p EXCEPT !["fetched_" \o origin] = "file_path", !.file = out]

\* data_handler.fetch_and_prepare_data(period="2y", interval="4h")
Fetch2y ==
    /\ pipe.pc = "fetch_2y"
    /\ \E out \in {None} \cup CsvContents("2y") :
          pipe' = [Fetch(pipe, "2y", out) EXCEPT !.pc = "clean"]
    /\ UNCHANGED <<csv, quantile, clean, env, rep, printed, batch, md>>

\* data_handler.clean_csv(), its result unused
PipelineClean ==
    /\ pipe.pc = "clean"
    /\ pipe' = [pipe EXCEPT !.pc = "forecast", !.clean_called = TRUE,
                            !.file = IF TooFew(pipe.file.rows, DefaultWarmup)
                                     THEN @
                                     ELSE [@ EXCEPT !.rows = @ - DefaultWarmup]]
    /\ UNCHANGED <<csv, quantile, clean, env, rep, printed, batch, md>>

\* quantile_forecaster.run(): makeQuantile reads the CSV, and returns with the
\* chart written or raises; the value returned is dropped
RunForecaster ==
    /\ pipe.pc = "forecast"
    /\ \E returns \in BOOLEAN :
          pipe' = IF returns
                  THEN [pipe EXCEPT !.pc = "fetch_user", !.forecast_input = pipe.file,
                                    !.names.forecaster_csv = Upper(pipe.ticker),
                                    !.names.forecast_chart = Upper(pipe.ticker)]
                  ELSE [pipe EXCEPT !.pc = "error", !.forecast_input = pipe.file,
                                    !.names.forecaster_csv = Upper(pipe.ticker)]
    /\ UNCHANGED <<csv, quantile, clean, env, rep, printed, batch, md>>

\* data_handler.fetch_and_prepare_data(period=period, interval=interval)
FetchUser ==
    /\ pipe.pc = "fetch_user"
    /\ \E out \in {None} \cup CsvContents("user") :
          pipe' = [Fetch(pipe, "user", out) EXCEPT !.pc = "plot"]
    /\ UNCHANGED <<csv, quantile, clean, env, rep, printed, batch, md>>

\* graph_generator.generate_all(): the three plots of self.df
GenerateAll ==
    /\ pipe.pc = "plot"
    /\ pipe' = [pipe EXCEPT !.pc = "report", !.charts_from = pipe.graph_df]
    /\ UNCHANGED <<csv, quantile, clean, env, rep, printed, batch, md>>

\* integrate_with_main(), then ai_generator.print_report(ticker): the report
\* generator looks for the CSV and the quantile chart under the ticker as typed
ReportStage ==
    /\ pipe.pc = "report"
    /\ \E ai_generator \in BOOLEAN : \E generated \in BOOLEAN :
          pipe' =
            IF ~ai_generator
            THEN [pipe EXCEPT !.pc = "pdf"]
            ELSE LET found ==
                       /\ SameFile(pipe.fs, pipe.ticker, pipe.names.handler_csv)
                       /\ SameFile(pipe.fs, pipe.ticker, pipe.names.forecast_chart)
                 IN [pipe EXCEPT !.pc = "pdf",
                                 !.names.report_csv = pipe.ticker,
                                 !.names.report_chart = pipe.ticker,
                                 !.markdown_file = IF found /\ generated
                                                   THEN pipe.ticker ELSE "None"]
    /\ UNCHANGED <<csv, quantile, clean, env, rep, printed, batch, md>>

\* if markdown_file: create_pdf_report(markdown_file), the ticker taken from
\* the name of the report file and put in upper case
PdfStage ==
    /\ pipe.pc = "pdf"
    /\ pipe' = IF pipe.markdown_file # "None"
               THEN [pipe EXCEPT !.pc = "done",
                                 !.names.pdf_chart = Upper(pipe.markdown_file)]
               ELSE [pipe EXCEPT !.pc = "done"]
    /\ UNCHANGED <<csv, quantile, clean, env, rep, printed, batch, md>>

PipelineInit ==
    /\ csv = <<>>
    /\ columns = FEATURES
    /\ FORECAST_HORIZON = DefaultHorizon
    /\ WINDOW = 0
    /\ Start
    /\ env = Sound
    /\ batch = NoBatch
    /\ md = NoParse
    /\ \E t \in Tickers : \E fs \in {"case_sensitive", "case_insensitive"} :
       \E f \in {None} \cup CsvContents("earlier_run") :
          pipe = [NotRunning EXCEPT !.pc = "construct", !.ticker = t, !.fs = fs,
                                    !.file = f, !.before = f]

PipelineNext ==
    \/ Construct
    \/ Fetch2y
    \/ PipelineClean
    \/ RunForecaster
    \/ FetchUser
    \/ GenerateAll
    \/ ReportStage
    \/ PdfStage

PipelineSpec == PipelineInit /\ [][PipelineNext]_vars

\* ------------------------------------------------------- parse_markdown
\* soup.find_all(['h2', 'h3', 'p', 'ul', 'li'])
ElementNames == {"h2", "h3", "p", "ul", "li"}

\* current_subsection['content'].append(item), else current_section['content']
AppendContent(m, item) ==
    IF m.current_subsection # None
    THEN [m EXCEPT !.current_subsection.content = Append(@, item)]
    ELSE IF m.current_section # None
    THEN [m EXCEPT !.current_section.content = Append(@, item)]
    ELSE m

\* One iteration of the loop over the elements.  An element is known by its
\* place j in the document, which stands for its text.
ParseElement ==
    /\ md.pc = "loop"
    /\ md.pos < Len(md.elements)
    /\ LET j == md.pos + 1
           name == md.elements[j]
           m == [md EXCEPT !.pos = j]
       IN  md' =
             IF name = "h2"
             THEN [m EXCEPT !.sections = IF md.current_section # None
                                         THEN Append(@, md.current_section) ELSE @,
                            !.current_section = [title |-> j, content |-> <<>>,
                                                 subsections |-> <<>>],
                            !.current_subsection = None]
             ELSE IF name = "h3"
             THEN IF md.current_section # None
                  THEN [m EXCEPT !.current_section =
                                     IF md.current_subsection # None
                                     THEN [@ EXCEPT !.subsections =
                                                      Append(@, md.current_subsection)]
                                     ELSE @,
                                 !.current_subsection = [title |-> j, content |-> <<>>]]
                  ELSE m
             ELSE IF name = "p"
             THEN AppendContent(m, [kind |-> "paragraph", at |-> j])
             ELSE IF name = "ul"
             THEN AppendContent(m, [kind |-> "bullet_list", at |-> j])
             ELSE m
    /\ UNCHANGED <<csv, quantile, clean, env, rep, printed, pipe, batch>>

\* "Add the last section", return content
ParseReturn ==
    /\ md.pc = "loop"
    /\ md.pos = Len(md.elements)
    /\ md' = IF md.current_section # None
             THEN LET last == IF md.current_subsection # None
                              THEN [md.current_section EXCEPT !.subsections =
                                        Append(@, md.current_subsection)]
                              ELSE md.current_section
                  IN [md EXCEPT !.pc = "returned", !.sections = Append(@, last)]
             ELSE [md EXCEPT !.pc = "returned"]
    /\ UNCHANGED <<csv, quantile, clean, env, rep, printed, pipe, batch>>

ParseInit ==
    /\ csv = <<>>
    /\ columns = FEATURES
    /\ FORECAST_HORIZON = DefaultHorizon
    /\ WINDOW = 0
    /\ Start
    /\ env = Sound
    /\ pipe = NotRunning
    /\ batch = NoBatch
    /\ \E n \in 0..MaxElements : \E elements \in [1..n -> ElementNames] :
          md = [NoParse EXCEPT !.pc = "loop", !.elements = elements]

ParseNext ==
    \/ ParseElement
    \/ ParseReturn

ParseSpec == ParseInit /\ [][ParseNext]_vars

\* ------------------------------------------------------- generate_report
\* except Exception as e: ... return error_msg, None
ExceptExceptionBug(r, e) == [r EXCEPT !.pc = "raised", !.result = [text |-> e, filename |-> "None"]]

ExceptException(r, e) ==
    [r EXCEPT !.pc = "returned", !.result = [text |-> "error_message", filename |-> "None"]]

\* return error_msg, None
ReturnError(r) ==
    [r EXCEPT !.pc = "returned", !.result = [text |-> "error_message", filename |-> "None"]]

\* main.py: quantile_forecaster.run() has returned (its value is dropped), then
\* ai_generator.print_report(ticker) calls generate_report(ticker)
GenerateReport ==
    /\ pc = "done"
    /\ rep.pc = "idle"
    /\ rep' = [rep EXCEPT !.pc = "summary"]
    /\ UNCHANGED <<csv, quantile, clean, env, rest>>

\* data_summary = self._load_csv_summary(ticker): raises when the CSV is not
\* there or cannot be summarised; the summary is made of the CSV alone
LoadCsvSummary ==
    /\ rep.pc = "summary"
    /\ rep' = IF env.csv = "missing" THEN ExceptException(rep, "FileNotFoundError")
              ELSE IF env.csv = "unreadable" THEN ExceptException(rep, "Exception")
              ELSE [rep EXCEPT !.pc = "verify", !.data_summary = [summary_of |-> "csv_file"]]
    /\ UNCHANGED <<csv, quantile, clean, env, rest>>

\* the files found missing: the CSV and every graph path
MissingFiles ==
    (IF env.csv = "missing" THEN {"CSV"} ELSE {}) \cup (ChartNames \ env.charts)

\* if missing_files: ... return error_msg, None
VerifyFiles ==
    /\ rep.pc = "verify"
    /\ rep' = IF MissingFiles # {} THEN ReturnError(rep)
              ELSE [rep EXCEPT !.pc = "encode"]
    /\ UNCHANGED <<csv, quantile, clean, env, rest>>

\* encoded_images[graph_name] = self._encode_image(path), for every graph path
EncodeImages ==
    /\ rep.pc = "encode"
    /\ rep' = IF env.encode = "fails" THEN ExceptException(rep, "OSError")
              ELSE [rep EXCEPT !.pc = "prompt", !.encoded_images = ChartNames]
    /\ UNCHANGED <<csv, quantile, clean, env, rest>>

\* prompts.py: the prompt is the template with ticker, data_summary and
\* timestamp put in
get_analysis_prompt(ticker, data_summary, timestamp) ==
    <<[kind |-> "ticker", value |-> ticker],
      [kind |-> "data_summary", value |-> data_summary],
      [kind |-> "timestamp", value |-> timestamp]>>

\* content = [prompt], then the trend, macd and rsi images
BuildContent ==
    /\ rep.pc = "prompt"
    /\ LET prompt == get_analysis_prompt([ticker |-> "T"], rep.data_summary, [now |-> TRUE])
           images == [j \in 1..3 |-> [kind |-> "image",
                                      value |-> [graph_name |-> <<"trend", "macd", "rsi">>[j]]]]
       IN  rep' = [rep EXCEPT !.pc = "call", !.prompt = prompt,
                              !.content = <<[kind |-> "prompt", value |-> prompt]>> \o
                                          SelectSeq(images, LAMBDA im :
                                              im.value.graph_name \in rep.encoded_images)]
    /\ UNCHANGED <<csv, quantile, clean, env, rest>>

\* response = self.model.generate_content(content, ...); if response.parts
CallModel ==
    /\ rep.pc = "call"
    /\ rep' = IF env.model = "raises"
              THEN ExceptException([rep EXCEPT !.called = TRUE], "Exception")
              ELSE IF env.model = "blocked"
              THEN ReturnError([rep EXCEPT !.called = TRUE])
              ELSE [rep EXCEPT !.pc = "write", !.called = TRUE]
    /\ UNCHANGED <<csv, quantile, clean, env, rest>>

\* os.makedirs; with open(report_filename, "w") as f: ...; return report, report_filename
WriteReport ==
    /\ rep.pc = "write"
    /\ rep' = IF env.write = "fails" THEN ExceptException(rep, "OSError")
              ELSE [rep EXCEPT !.pc = "returned", !.written = TRUE,
                               !.result = [text |-> "report_text",
                                           filename |-> "report_filename"]]
    /\ UNCHANGED <<csv, quantile, clean, env, rest>>

\* isinstance(result, tuple) and len(result) == 2
IsPair(result) == DOMAIN result = {"text", "filename"}

\* print_report, once generate_report has returned: the banner and the
\* returned report_filename, or print(result) and None
PrintReport ==
    /\ rep.pc = "returned"
    /\ printed.pc = "idle"
    /\ printed' = IF IsPair(rep.result)
                  THEN [pc |-> "returned", banner |-> TRUE, ret |-> rep.result.filename]
                  ELSE [pc |-> "returned", banner |-> FALSE, ret |-> "None"]
    /\ UNCHANGED <<csv, quantile, clean, env, rep, pipe, batch, md>>

\* a CSV the forecast succeeds on
ReportSeries == [t \in 1..2 |-> [Datetime |-> t - 1, Close |-> t, nan |-> "none"]]

ReportInit ==
    /\ csv = ReportSeries
    /\ columns = FEATURES
    /\ FORECAST_HORIZON = 1
    /\ WINDOW = 1
    /\ Start
    /\ env \in [csv : {"ok", "missing", "unreadable"}, charts : SUBSET ChartNames,
                 encode : {"ok", "fails"}, model : {"ok", "raises", "blocked"},
                 write : {"ok", "fails"}]
    /\ pipe = NotRunning
    /\ batch = NoBatch
    /\ md = NoParse

ReportNext ==
    \/ LoadData
    \/ DropNaFeatures
    \/ MakeTargets
    \/ DropNaAll
    \/ BacktestStep
    \/ LiveForecast
    \/ Plot
    \/ Return
    \/ GenerateReport
    \/ LoadCsvSummary
    \/ VerifyFiles
    \/ EncodeImages
    \/ BuildContent
    \/ CallModel
    \/ WriteReport
    \/ PrintReport

ReportSpec == ReportInit /\ [][ReportNext]_vars

\* ------------------------------------------------------------ properties
\* The data frame is the ObservationSet: both drop steps are done.
Built == pc \notin {"load", "dropna_features", "targets", "dropna_all"} /\ err # "KeyError"

\* The loop has run to its end.
LoopFinished == pc \in {"live", "plot", "return", "done"}

WindowOk == 0 < WINDOW /\ WINDOW < Len(df)

\* The row of the ObservationSet with timestamp d.
RowOf(d) == CHOOSE r \in {df[k] : k \in 1..Len(df)} : r.Datetime = d

\* The series after the first drop step, computed from the input.
FeatureComplete == SelectSeq(csv, LAMBDA r : r.nan # "feature")
PosIn(s, d) == CHOOSE t \in 1..Len(s) : s[t].Datetime = d

\* C1: in backtest step i (the k-th prediction, k = i+1) the training set is
\* exactly the rows at positions 0..n-W+i-1 and the predicted row is the row
\* at position n-W+i, so every training row is strictly before the predicted
\* row and the predicted row is not in the training set.
C1_TrainingRowsBeforePredictedRow ==
    (Built /\ WindowOk) =>
        \A q \in Levels : \A k \in 1..Len(preds[q]) :
            LET n == Len(df)
                p == preds[q][k]
            IN /\ p.model.X = [j \in 1..(n - WINDOW + k - 1) |-> Features(df[j])]
               /\ p.x = Features(df[n - WINDOW + k])
               /\ \A j \in 1..Len(p.model.X) : p.model.X[j].row < p.x.row

C1_Witness ==
    /\ pc = "live"
    /\ WindowOk
    /\ WINDOW >= 2
    /\ Len(preds[5]) = WINDOW
    /\ Len(preds[5][1].model.X) >= 2

\* C2: no training row of a backtest step has features or targets that were
\* computed from a Close at or after the predicted row, for every H >= 1.
C2_NoFutureCloseInTraining ==
    (Built /\ WindowOk) =>
        \A q \in Levels : \A k \in 1..Len(preds[q]) :
            LET p == preds[q][k]
            IN \A j \in 1..Len(p.model.X) :
                 /\ p.model.X[j].row < p.x.row
                 /\ \A d \in RowOf(p.model.X[j].row).target_window : d < p.x.row

\* C3: for every kept row t, indexed in the feature-complete series, the
\* targets are the max and the min of Close[t..t+H-1]: a window of exactly H
\* rows that starts at t.
C3_TargetsAreForwardWindow ==
    Built =>
        \A k \in 1..Len(df) :
            LET fc == FeatureComplete
                t == PosIn(fc, df[k].Datetime)
                h == FORECAST_HORIZON
            IN /\ t + h - 1 <= Len(fc)
               /\ df[k].future_high_close = MaxOf({fc[u].Close : u \in t..(t + h - 1)})
               /\ df[k].future_low_close = MinOf({fc[u].Close : u \in t..(t + h - 1)})
               /\ df[k].target_window = {fc[u].Datetime : u \in t..(t + h - 1)}
               /\ Cardinality(df[k].target_window) = h

C3_Witness ==
    /\ pc = "backtest"
    /\ FORECAST_HORIZON >= 2
    /\ Len(df) >= 2
    /\ \E k \in 1..Len(df) : df[k].future_low_close < df[k].future_high_close
    /\ \E k \in 1..Len(df) : df[k].future_high_close > df[k].Close

\* C4: when all n rows have the 7 features and Close defined and 1 <= H <= n,
\* the ObservationSet is exactly the first n-H+1 rows in their order, whatever
\* the other columns hold.
C4_OnlyTrailingRowsDropped ==
    (/\ Built
     /\ \A t \in 1..Len(csv) : csv[t].nan # "feature"
     /\ FORECAST_HORIZON <= Len(csv)) =>
        [k \in 1..Len(df) |-> df[k].Datetime]
            = [k \in 1..(Len(csv) - FORECAST_HORIZON + 1) |-> csv[k].Datetime]

\* C5: the live forecast models are trained on the entire ObservationSet, the
\* last observation included, and applied to the features of the last one.
C5_LiveTrainedOnEntireSet ==
    pc \in {"return", "done"} =>
        \A q \in Levels :
            /\ final[q].model.X = [j \in 1..Len(df) |-> Features(df[j])]
            /\ final[q].x = Features(df[Len(df)])

\* The target a level is bound to: low below 0.50, high above, mid at 0.50.
BoundTarget(q) ==
    IF q < 50 THEN "future_low_close"
    ELSE IF q > 50 THEN "future_high_close" ELSE "future_mid"

\* The column of a model's training rows that its level is bound to.
BoundColumn(m) ==
    [j \in 1..Len(m.X) |->
        LET r == RowOf(m.X[j].row)
        IN IF m.quantile < 50 THEN r.future_low_close
           ELSE IF m.quantile > 50 THEN r.future_high_close
           ELSE [num |-> r.future_high_close + r.future_low_close, den |-> 2]]

FittedForLevel(m, q) ==
    /\ m.quantile = q
    /\ m.target = BoundTarget(q)
    /\ m.y = BoundColumn(m)

\* C6: in every fit, of each backtest step and of the live forecast, the
\* levels fitted are exactly the seven, each against its bound target, and
\* the prediction kept for a level comes from that level's model of that step.
C6_LevelsBoundToTargets ==
    Built =>
        /\ DOMAIN preds = {5, 15, 25, 50, 75, 85, 95}
        /\ DOMAIN final = {5, 15, 25, 50, 75, 85, 95}
        /\ \A q \in Levels : \A k \in 1..Len(preds[q]) :
              /\ FittedForLevel(preds[q][k].model, q)
              /\ preds[q][k].model.X = preds[5][k].model.X
              /\ k = Len(preds[q]) => preds[q][k].model = models[q]
        /\ \A q \in Levels :
              final[q] # None =>
                  /\ FittedForLevel(final[q].model, q)
                  /\ final[q].model = final_models[q]

C6_Witness ==
    /\ pc = "done"
    /\ WINDOW >= 2
    /\ \E j \in 1..Len(final[25].model.y) : final[25].model.y[j] # final[75].model.y[j]

\* C7: W == len(ObservationSet) or W == 0 fails with InsufficientDataError
\* before a chart is written or a forecast returned; W == len - 1 succeeds.
C7_WindowPreconditionEnforced ==
    /\ (Built /\ (WINDOW = Len(df) \/ WINDOW = 0)) =>
          /\ chart = FALSE
          /\ ret = None
          /\ pc # "done"
          /\ pc = "error" => err = "InsufficientDataError"
    /\ (Built /\ WINDOW > 0 /\ WINDOW = Len(df) - 1) => pc # "error"

\* C8 as stated: the ObservationSet of the 30-row scenario holds exactly rows
\* 0..23, with future_high[t] = Close[t+5] and future_low[t] = Close[t].
C8_ScenarioRows0To23 ==
    Built =>
        /\ [k \in 1..Len(df) |-> df[k].Datetime] = [k \in 1..24 |-> k - 1]
        /\ \A k \in 1..Len(df) :
              /\ df[k].future_high_close = csv[k + 5].Close
              /\ df[k].future_low_close = csv[k].Close

\* C8 amended: the ObservationSet of the 30-row scenario holds exactly rows
\* 0..24 (only the trailing H-1 = 5 rows, 25..29, are dropped), with
\* future_high[t] = Close[t+5] and future_low[t] = Close[t] for every t <= 24.
C8_ScenarioRows0To24 ==
    Built =>
        /\ [k \in 1..Len(df) |-> df[k].Datetime] = [k \in 1..25 |-> k - 1]
        /\ \A k \in 1..Len(df) :
              /\ df[k].future_high_close = csv[k + 5].Close
              /\ df[k].future_low_close = csv[k].Close

C8_Witness ==
    /\ pc = "done"
    /\ Len(csv) = 30
    /\ Len(df) = 25
    /\ df[25].future_high_close = csv[30].Close

\* low <= mid <= high, mid a fraction num/den
Ordered(lo, mid, hi) == lo * mid.den <= mid.num /\ mid.num <= hi * mid.den

\* The mid targets passed to a 0.50-level fit lie between the low and the
\* high target of the same training row.
MidFitOrdered(m) ==
    \A j \in 1..Len(m.X) :
        LET r == RowOf(m.X[j].row)
        IN Ordered(r.future_low_close, m.y[j], r.future_high_close)

\* C9: future_low <= future_mid <= future_high for every row of the
\* ObservationSet and of every training slice, future_mid being the target
\* passed to the 0.50-level fit.
C9_TargetOrdering ==
    Built =>
        /\ \A k \in 1..Len(df) :
              /\ df[k].future_low_close <= df[k].future_high_close
              /\ Ordered(df[k].future_low_close,
                         Mid(df[k].future_high_close, df[k].future_low_close),
                         df[k].future_high_close)
        /\ \A k \in 1..Len(preds[50]) : MidFitOrdered(preds[50][k].model)
        /\ final[50] # None => MidFitOrdered(final[50].model)

C9_Witness ==
    /\ pc = "done"
    /\ Len(preds[50]) >= 1
    /\ \E j \in 1..Len(final[50].model.X) :
          LET r == RowOf(final[50].model.X[j].row)
          IN /\ r.future_low_close < r.future_high_close
             /\ r.future_low_close * 2 < final[50].model.y[j].num
             /\ final[50].model.y[j].num < r.future_high_close * 2

\* C10: when 0 < W < len(ObservationSet), after the loop each of the seven
\* prediction lists and each of y_true_high, y_true_low has exactly W entries.
C10_BacktestListsHaveWEntries ==
    (LoopFinished /\ WindowOk) =>
        /\ \A q \in Levels : Len(preds[q]) = WINDOW
        /\ Len(y_true_high) = WINDOW
        /\ Len(y_true_low) = WINDOW

C10_Witness ==
    /\ pc = "done"
    /\ WindowOk
    /\ WINDOW >= 2
    /\ Len(preds[95]) = WINDOW
    /\ Len(y_true_low) = WINDOW

\* C11: the k-th entry of every prediction list and the k-th realized high and
\* low come from the row at position n-W+k, the row that supplies the k-th
\* timestamp and the k-th Close plotted; timestamps ascend.
C11_BacktestAlignedWithTail ==
    (pc \in {"return", "done"} /\ WindowOk) =>
        /\ Len(datetime_recent) = WINDOW
        /\ Len(close_recent) = WINDOW
        /\ \A k \in 1..WINDOW :
              LET r == df[Len(df) - WINDOW + k]
              IN /\ \A q \in Levels : preds[q][k].x = Features(r)
                 /\ y_true_high[k] = r.future_high_close
                 /\ y_true_low[k] = r.future_low_close
                 /\ datetime_recent[k] = r.Datetime
                 /\ close_recent[k] = r.Close
                 /\ k > 1 => datetime_recent[k - 1] < datetime_recent[k]

C11_Witness ==
    /\ pc = "done"
    /\ WINDOW >= 2
    /\ Len(df) >= WINDOW + 2
    /\ preds[50][2].x.row = datetime_recent[2]
    /\ close_recent[1] # close_recent[2]

\* C12: forecast_datetime spans H future periods anchored at the last
\* timestamp of the input series, for every H >= 1.
C12_ForwardSpansHFromLastInput ==
    pc \in {"return", "done"} =>
        /\ Len(forecast_datetime) = FORECAST_HORIZON
        /\ \A k \in 1..Len(forecast_datetime) :
              forecast_datetime[k].base = csv[Len(csv)].Datetime

\* C13: the bands drawn are exactly (q05,q95), (q15,q85), (q25,q75), over the
\* evaluation window from the backtest lists and over the forward extension
\* from the live forecast, where every timestamp carries the same value.
C13_BandsPairSymmetricLevels ==
    pc \in {"return", "done"} =>
        /\ Len(bands) = 3
        /\ Len(forecast_bands) = 3
        /\ \A lo \in {5, 15, 25} :
              \E b \in 1..3 :
                  /\ bands[b] = [x |-> datetime_recent, y1 |-> preds[lo],
                                 y2 |-> preds[100 - lo]]
                  /\ forecast_bands[b].x = forecast_datetime
                  /\ Len(forecast_bands[b].y1) = Len(forecast_datetime)
                  /\ Len(forecast_bands[b].y2) = Len(forecast_datetime)
                  /\ \A k \in 1..Len(forecast_datetime) :
                        /\ forecast_bands[b].y1[k] = final[lo]
                        /\ forecast_bands[b].y2[k] = final[100 - lo]

C13_Witness ==
    /\ pc = "done"
    /\ WINDOW >= 2
    /\ Len(bands) = 3
    /\ Len(forecast_bands[2].y1) >= 2
    /\ forecast_bands[2].y1[1].model.quantile = 15
    /\ forecast_bands[2].y2[2].model.quantile = 85

NothingProduced ==
    /\ \A q \in Levels : models[q] = None /\ preds[q] = <<>> /\ final[q] = None
    /\ chart = FALSE
    /\ ret = None

C15_EmptySeriesError ==
    (Built /\ Len(df) = 0) =>
        /\ pc = "error"
        /\ err = "EmptySeriesError"

\* The timestamps of the rows of the input with all features and Close.
Surviving == {csv[t].Datetime : t \in {u \in 1..Len(csv) : csv[u].nan # "feature"}}

\* The first h surviving timestamps from d on.
NextSurviving(d, h) ==
    {e \in Surviving : d <= e /\ Cardinality({f \in Surviving : d <= f /\ f < e}) < h}

\* C16: rows with a missing feature or Close are gone before the targets are
\* computed, and the window of a kept row is the next H surviving rows: a
\* removed row neither feeds a target nor takes a slot of the window.
C16_RemovedRowsTakeNoSlot ==
    /\ (pc \in {"targets", "dropna_all"} \/ Built) =>
          \A k \in 1..Len(df) : df[k].nan # "feature"
    /\ Built =>
          \A k \in 1..Len(df) :
              /\ df[k].target_window = NextSurviving(df[k].Datetime, FORECAST_HORIZON)
              /\ Cardinality(df[k].target_window) = FORECAST_HORIZON
              /\ df[k].future_high_close
                    = MaxOf({csv[t].Close : t \in {u \in 1..Len(csv) :
                                csv[u].Datetime \in df[k].target_window}})
              /\ df[k].future_low_close
                    = MinOf({csv[t].Close : t \in {u \in 1..Len(csv) :
                                csv[u].Datetime \in df[k].target_window}})

C16_Witness ==
    /\ pc = "backtest"
    /\ \E k \in 1..Len(df) : \E t \in 1..Len(csv) :
          /\ csv[t].nan = "feature"
          /\ \E a, b \in df[k].target_window : a < csv[t].Datetime /\ csv[t].Datetime < b

\* A second build of the ObservationSet from the input series.
Rebuild(s, h) == DropNaAny(WithTargets(SelectSeq(s, LAMBDA r : r.nan # "feature"), h))

C19_CleanRemovesFirstK ==
    [][(clean'.calls = clean.calls + 1 /\ ~clean'.raised) =>
         LET k == IF clean'.fn = "clean_csv_file" THEN 50 ELSE clean'.k
             n == Len(csv)
         IN  IF n > k
             THEN /\ Len(csv') = n - k
                  /\ Len(csv') > 0
                  /\ \A j \in 1..(n - k) : csv'[j] = csv[j + k]
                  /\ clean'.ret = "True"
             ELSE /\ csv' = csv
                  /\ clean'.ret = "False"]_vars

\* two successful calls of clean_csv_file, then one with too few rows left
C19_Witness ==
    /\ clean.calls = 3
    /\ clean.fn = "clean_csv_file"
    /\ clean.ret = "False"
    /\ ~clean.raised
    /\ Len(csv) = 2
    /\ csv[1].Datetime = 100

\* C17: the prompt built for a ticker contains the forecast values of that
\* run: the returned forecast (the seven per-level prices and the forward
\* timestamps), or at least one of its prices, is a part of the prompt.
C17_PromptHoldsForecast ==
    rep.prompt # <<>> =>
        \E j \in 1..Len(rep.prompt) :
            \/ rep.prompt[j].value = ret
            \/ \E q \in Levels : rep.prompt[j].value = final[q]

\* something went wrong for generate_report
Failure ==
    \/ env.csv # "ok"
    \/ env.charts # ChartNames
    \/ env.encode = "fails"
    \/ env.model # "ok"
    \/ env.write = "fails"

\* C20: generate_report never raises; when it has returned after any
\* failure (missing or unreadable CSV, missing chart file, image encoding
\* error, model call error, blocked model response, file write error) the
\* result is (error_message, None); a result (report_text, report_filename)
\* is returned only with the report file written; and the model is called
\* only when the CSV and all chart files are there.
C20_ReportNeverRaises ==
    /\ rep.pc # "raised"
    /\ rep.pc = "returned" /\ Failure =>
           rep.result = [text |-> "error_message", filename |-> "None"]
    /\ rep.result.filename # "None" =>
           /\ rep.written
           /\ rep.pc = "returned"
           /\ rep.result.text = "report_text"
    /\ rep.called => env.csv = "ok" /\ env.charts = ChartNames

\* the model was called and raised, and generate_report returned the error pair
C20_Witness ==
    /\ rep.pc = "returned"
    /\ rep.called
    /\ env.model = "raises"
    /\ rep.result = [text |-> "error_message", filename |-> "None"]

\* future_mid computed once over the whole ObservationSet
GlobalMid ==
    [k \in 1..Len(df) |->
        [num |-> df[k].future_high_close + df[k].future_low_close, den |-> 2]]

\* The y of a 0.50-level fit is, row for row, the global future_mid of the
\* rows it was fitted on.
MidIsGlobal(m) ==
    /\ Len(m.y) = Len(m.X)
    /\ \A j \in 1..Len(m.X) :
          LET r == RowOf(m.X[j].row)
          IN m.y[j] = [num |-> r.future_high_close + r.future_low_close, den |-> 2]
    /\ m.y = SubSeq(GlobalMid, 1, Len(m.X))

\* C21: in every backtest step and in the live fit, the mid target of each
\* training row is (future_high + future_low)/2 of that same row: future_mid
\* computed per training slice equals, row for row, future_mid computed once
\* over the whole ObservationSet and then sliced.
C21_MidPerSliceIsGlobalMid ==
    Built =>
        /\ \A k \in 1..Len(preds[50]) : MidIsGlobal(preds[50][k].model)
        /\ final[50] # None => MidIsGlobal(final[50].model)

\* two backtest slices of different lengths, with low targets that differ
C21_Witness ==
    /\ pc = "done"
    /\ Len(preds[50]) >= 2
    /\ Len(preds[50][1].model.y) < Len(preds[50][2].model.y)
    /\ \E j \in 1..(Len(df) - 1) : df[j].future_low_close # df[j + 1].future_low_close

KeptPredictions ==
    {preds[q][k] : q \in Levels, k \in 1..Len(preds[50])} \cup {final[q] : q \in Levels}

\* C25: the feature row of the live forecast, and the timestamp the forward
\* extension is anchored at, is the row H-1 rows before the last row of the
\* feature-complete input series (the last row with a defined target), and
\* the H-1 most recent rows give their features to no fit and no prediction.
C25_LiveRowIsHMinus1BeforeLast ==
    pc \in {"return", "done"} =>
        LET fc == FeatureComplete
            h == FORECAST_HORIZON
            live == fc[Len(fc) - h + 1]
            recent == {fc[u].Datetime : u \in (Len(fc) - h + 2)..Len(fc)}
        IN  /\ \A q \in Levels : final[q].x = Features(live)
            /\ \A k \in 1..Len(forecast_datetime) :
                   forecast_datetime[k].base = live.Datetime
            /\ \A p \in KeptPredictions :
                   /\ p.x.row \notin recent
                   /\ \A j \in 1..Len(p.model.X) : p.model.X[j].row \notin recent

\* C29: the banner 'Report completed successfully' is printed only when
\* generate_report returned a report file name; when generate_report returned
\* (error_message, None), print_report prints no banner and returns None.
C29_BannerOnlyOnSuccess ==
    printed.pc = "returned" =>
        /\ printed.banner => rep.result.filename # "None" /\ rep.written
        /\ rep.result.filename = "None" => ~printed.banner /\ printed.ret = "None"

\* the files of the batch that satisfy P
CountFiles(P(_)) == Cardinality({j \in 1..Len(batch.files) : P(batch.files[j])})

\* read without error and found with 50 rows or fewer
TooFewRows(f) == f.io # "read_fails" /\ f.rows <= 50

\* the processing raised: at the read, or at the write of the cleaned rows
RaisedError(f) == f.io = "read_fails" \/ (f.rows > 50 /\ f.io = "write_fails")

\* C28: after clean_all_csvs, successful + skipped + failed is the number of
\* CSV files found, the files with 50 rows or fewer are counted as skipped,
\* and the files counted as failed are those whose processing raised.
C28_EveryFileClassifiedOnce ==
    (batch.pc = "returned" /\ batch.files # <<>>) =>
        /\ batch.successful + batch.skipped + batch.failed = Len(batch.files)
        /\ batch.skipped = CountFiles(TooFewRows)
        /\ batch.failed = CountFiles(RaisedError)

\* the places of the elements, in document order
Places == [j \in 1..Len(md.elements) |-> j]

\* the places of the h2 elements, in document order
H2Places == SelectSeq(Places, LAMBDA j : md.elements[j] = "h2")

\* the h3 elements of the k-th h2: after it and before the next h2
H3PlacesOf(k) ==
    SelectSeq(Places, LAMBDA j :
        /\ md.elements[j] = "h3"
        /\ H2Places[k] < j
        /\ (k < Len(H2Places) => j < H2Places[k + 1]))

\* C26: parse_markdown loses no subsection: each h2 opens one section, and
\* the section's 'subsections' are exactly the h3 elements between that h2
\* and the next, each once and in document order, the last h3 before the
\* next h2 included.
C26_NoSubsectionLost ==
    md.pc = "returned" =>
        /\ Len(md.sections) = Len(H2Places)
        /\ \A k \in 1..Len(md.sections) :
              /\ md.sections[k].title = H2Places[k]
              /\ [u \in 1..Len(md.sections[k].subsections) |->
                      md.sections[k].subsections[u].title] = H3PlacesOf(k)

\* C22: the charts of generate_all() are drawn from the CSV contents written
\* by the fetch for the user-selected period of the same run.
C22_ChartsFromUserFetch ==
    (pipe.charts_from # None /\ pipe.fetched_user = "file_path") =>
        pipe.charts_from.origin = "user"

\* C23: when the 2y/4h fetch finds no data, neither clean_csv nor the
\* forecaster is run on the CSV found before the run, which stays as it was.
C23_NoDataNoCleanNoForecast ==
    pipe.fetched_2y = "None" =>
        /\ ~pipe.clean_called
        /\ pipe.forecast_input = None
        /\ pipe.fetched_user # "file_path" => pipe.file = pipe.before

\* the names already resolved, of the CSV and of the quantile chart
CsvNames ==
    {pipe.names[st] : st \in {"handler_csv", "graph_csv", "forecaster_csv", "report_csv"}}
        \ {"None"}
ChartFileNames ==
    {pipe.names[st] : st \in {"forecast_chart", "report_chart", "pdf_chart"}} \ {"None"}

\* C27: whatever the letter case of the ticker typed, the stages resolve the
\* same CSV file and the same quantile chart file.
C27_SameFilesWhateverCase ==
    /\ \A a, b \in CsvNames : SameFile(pipe.fs, a, b)
    /\ \A a, b \in ChartFileNames : SameFile(pipe.fs, a, b)
====
